---- MODULE Spec2Model ----
(***************************************************************************)
(* Task management REST API.  Two servers live in the repository:         *)
(*   "router" - task-management-api/server (routes/tasks.js with           *)
(*              models/Task.js and middleware/validation.js);              *)
(*   "mono"   - the single-file server (src/unnamed/part_000) with its     *)
(*              own User, Task and Project schemas.                        *)
(* A behaviour runs one of them (app).  Requests are handled one at a      *)
(* time: a handler action runs the whole handler against the store and     *)
(* leaves the request, the response and the store calls it made in last;   *)
(* Deliver hands the response to the client.  The race specification runs  *)
(* the handlers of the single-file server one awaited store call at a      *)
(* time, several requests at once (inflight).                              *)
(*                                                                         *)
(* Values: an optional value is a sequence, <<>> for undefined and <<v>>   *)
(* for v.  Ids are positive integers, 0 is an id of malformed shape.       *)
(* Dates are integers, -1 is a string that is no date.                     *)
(***************************************************************************)
EXTENDS Integers, Sequences, FiniteSets, TLC

VARIABLES app, now, users, tasks, projects, nextUser, nextTask, nextProject, last,
          inflight

vars == <<app, now, users, tasks, projects, nextUser, nextTask, nextProject, last, inflight>>

\* ------------------------------------------------------------------ bounds

MaxTasks == 2
MaxUsers == 2
MaxProjects == 1
MaxTime == 2

\* ------------------------------------------------------------------ values

None == <<>>
Some(v) == <<v>>

Idle == [op |-> "idle"]

\* The characters of the strings the model sends as titles and search texts.
Chars(s) ==
    CASE s = "" -> <<>>
      [] s = "Ab" -> <<"A", "b">>
      [] s = "b" -> <<"b">>
      [] s = "a" -> <<"a">>
      [] s = "zz" -> <<"z", "z">>
      [] s = " " -> <<" ">>
      [] s = "T101" -> [i \in 1..101 |-> "t"]
      [] s = "al" -> <<"a", "l">>
      [] s = "amy" -> <<"a", "m", "y">>
      [] s = "bob" -> <<"b", "o", "b">>
      [] s = "a@x.io" -> <<"a", "@", "x", ".", "i", "o">>
      [] s = "b@x.io" -> <<"b", "@", "x", ".", "i", "o">>
      [] s = "nomail" -> <<"n", "o", "m", "a", "i", "l">>
      [] s = "secret" -> <<"s", "e", "c", "r", "e", "t">>
      [] OTHER -> <<"?">>

StrLen(s) == Len(Chars(s))

LowerChar(c) == IF c = "A" THEN "a" ELSE c

Lower(cs) == [i \in 1..Len(cs) |-> LowerChar(cs[i])]

\* String.prototype.trim on the strings above.
Trim(s) == IF s = " " THEN "" ELSE s

\* hay contains needle as a substring (both are character sequences).
Contains(hay, needle) ==
    \E i \in 0..Len(hay) :
        /\ i + Len(needle) <= Len(hay)
        /\ \A j \in 1..Len(needle) : hay[i + j] = needle[j]

\* { $regex: search, $options: 'i' } on a string field.
RegexI(field, search) == Contains(Lower(Chars(field)), Lower(Chars(search)))

\* ------------------------------------------------- models/Task.js (router)

Statuses == {"pending", "in-progress", "completed", "cancelled"}
Priorities == {"low", "medium", "high", "urgent"}
Categories == {"work", "personal", "shopping", "health", "education", "other"}

TitleMax == 100

\* Schema defaults applied by new Task({...}) to undefined paths.
DefaultStatus == "pending"
DefaultPriority == "medium"
DefaultCategory == "other"

\* The dueDate validator: !date || date > new Date().
DueDateValid(d) == d = None \/ d[1] > now

\* virtual isOverdue: this.dueDate && this.dueDate < new Date() &&
\* this.status !== 'completed'.  Without a dueDate the && chain yields the
\* dueDate itself (undefined), not false.
isOverdue(t) ==
    IF t.dueDate = None THEN None
    ELSE Some(t.dueDate[1] < now /\ t.status # "completed")

\* pre('save'): sets or clears completedAt when status is modified.
PreSave(t, statusModified) ==
    IF ~statusModified THEN t
    ELSE IF t.status = "completed" /\ t.completedAt = None
         THEN [t EXCEPT !.completedAt = Some(now)]
    ELSE IF t.status # "completed" /\ t.completedAt # None
         THEN [t EXCEPT !.completedAt = None]
    ELSE t

\* toJSON with virtuals: the stored fields, the id, and isOverdue (absent
\* from the JSON when the getter returns undefined).
TaskJSON(id, t) ==
    [id |-> id, title |-> t.title, status |-> t.status, priority |-> t.priority,
     category |-> t.category, dueDate |-> t.dueDate, assignedTo |-> t.assignedTo,
     completedAt |-> t.completedAt, isOverdue |-> isOverdue(t)]

\* Schema validation of the paths a write sets (save validates the whole new
\* document, findByIdAndUpdate with runValidators the paths of the update).
\* set is a record of optional values; an undefined path is not validated,
\* except that save requires a title.
SchemaValid(set, isNew) ==
    /\ (isNew => set.title # None)
    /\ (set.title # None => StrLen(set.title[1]) >= 1 /\ StrLen(set.title[1]) <= TitleMax)
    /\ (set.status # None => set.status[1] \in Statuses)
    /\ (set.priority # None => set.priority[1] \in Priorities)
    /\ (set.category # None => set.category[1] \in Categories)
    /\ DueDateValid(set.dueDate)

\* ------------------------------------------------------------ store calls

\* What a handler hands back: the response, the store calls it made, and
\* the store after it.
Out(res, calls) ==
    [res |-> res, calls |-> calls, users |-> users, tasks |-> tasks,
     projects |-> projects, nextUser |-> nextUser, nextTask |-> nextTask,
     nextProject |-> nextProject]

Call(fn) == [fn |-> fn]

WriteFns ==
    {"Task.save", "Task.findByIdAndUpdate", "Task.findByIdAndDelete", "Task.deleteMany",
     "User.save", "User.findByIdAndDelete", "Project.save", "Project.deleteMany"}

Writes(calls) == SelectSeq(calls, LAMBDA c : c.fn \in WriteFns)

\* res.status(code).json({success: false, message})
Fail(code, message) == [status |-> code, success |-> FALSE, message |-> message]

\* ------------------------------------------- middleware/validation.js

\* One validator of a chain: an error entry when it fails.
Rule(field, v, ok, msg) ==
    IF ok THEN <<>> ELSE <<[path |-> field, msg |-> msg, value |-> v]>>

\* .optional(): the chain is skipped for an undefined value.
Optional(v, errs) == IF v = None THEN <<>> ELSE errs

\* express-validator validates the string form of the value ('' for undefined).
StrOf(v) == IF v = None THEN "" ELSE v[1]

isMongoId(v) == v # None /\ v[1] >= 1

isISO8601(v) == v # None /\ v[1] >= 0

isInt(v, min, max) == v # None /\ v[1] >= min /\ v[1] <= max

LimitMax == 100

EnumRules(b) ==
    Optional(b.status, Rule("status", b.status, b.status[1] \in Statuses,
        "Status must be pending, in-progress, completed, or cancelled"))
    \o Optional(b.priority, Rule("priority", b.priority, b.priority[1] \in Priorities,
        "Priority must be low, medium, high, or urgent"))
    \o Optional(b.category, Rule("category", b.category, b.category[1] \in Categories,
        "Category must be work, personal, shopping, health, education, or other"))

AssignedToRule(b) ==
    Optional(b.assignedTo, Rule("assignedTo", b.assignedTo, isMongoId(b.assignedTo),
        "Assigned user ID must be a valid MongoDB ObjectId"))

TitleLengthRule(b) ==
    Rule("title", b.title, StrLen(StrOf(b.title)) >= 1 /\ StrLen(StrOf(b.title)) <= TitleMax,
        "Title must be between 1 and 100 characters")

HoursMax == 1000

\* body('estimatedHours').optional().isFloat({min: 0, max: 1000}); a body
\* without the key has it undefined.
HoursRule(b) ==
    IF "estimatedHours" \notin DOMAIN b THEN <<>>
    ELSE Optional(b.estimatedHours,
             Rule("estimatedHours", b.estimatedHours, isInt(b.estimatedHours, 0, HoursMax),
                  "Estimated hours must be between 0 and 1000"))

\* taskValidationRules.create
ValidateCreate(b) ==
    Rule("title", b.title, StrOf(b.title) # "", "Title is required")
    \o TitleLengthRule(b)
    \o EnumRules(b)
    \o Optional(b.dueDate,
         Rule("dueDate", b.dueDate, isISO8601(b.dueDate), "Due date must be a valid date")
         \o Rule("dueDate", b.dueDate, ~(b.dueDate[1] >= 0 /\ b.dueDate[1] <= now),
                 "Due date must be in the future"))
    \o AssignedToRule(b)
    \o HoursRule(b)

\* taskValidationRules.update
ValidateUpdate(id, b) ==
    Rule("id", Some(id), isMongoId(Some(id)), "Task ID must be a valid MongoDB ObjectId")
    \o Optional(b.title,
         Rule("title", b.title, StrOf(b.title) # "", "Title cannot be empty")
         \o TitleLengthRule(b))
    \o EnumRules(b)
    \o Optional(b.dueDate,
         Rule("dueDate", b.dueDate, isISO8601(b.dueDate), "Due date must be a valid date"))
    \o AssignedToRule(b)

\* taskValidationRules.query
ValidateQuery(q) ==
    Optional(q.page, Rule("page", q.page, q.page[1] >= 1, "Page must be a positive integer"))
    \o Optional(q.limit, Rule("limit", q.limit, isInt(q.limit, 1, LimitMax),
         "Limit must be between 1 and 100"))
    \o EnumRules(q)
    \o AssignedToRule(q)
    \o Optional(q.sortOrder, Rule("sortOrder", q.sortOrder, q.sortOrder[1] \in {"asc", "desc"},
         "Sort order must be asc or desc"))

\* Mutant: only the first error is reported.
ErrorEntriesFirst(errors) ==
    <<[field |-> errors[1].path, message |-> errors[1].msg, value |-> errors[1].value]>>

\* errors.array().map(error => ({field, message, value}))
ErrorEntries(errors) ==
    [i \in 1..Len(errors) |->
        [field |-> errors[i].path, message |-> errors[i].msg, value |-> errors[i].value]]

ValidationFailed(errors) ==
    [status |-> 400, success |-> FALSE, message |-> "Validation failed",
     errors |-> ErrorEntries(errors)]

\* Mutant: the middleware calls next whatever the chains found.
handleValidationErrorsNext(errors, handler) == handler

\* handleValidationErrors: answers 400 when the chains left errors, and calls
\* next (the route handler, whose outcome is handler) otherwise.
handleValidationErrors(errors, handler) ==
    IF errors # <<>> THEN Out(ValidationFailed(errors), <<>>) ELSE handler

\* The trim sanitizer of the title chain, applied to req.body.
Sanitize(b) == IF b.title = None THEN b ELSE [b EXCEPT !.title = Some(Trim(b.title[1]))]

\* ------------------------------------------------------ routes/tasks.js

\* Mutant: the existence check accepts every id.
UserExistsAny(id) == TRUE

UserExists(id) == id \in DOMAIN users

\* if (assignedTo) { const user = await User.findById(assignedTo); ... }
AssignedLookup(b) ==
    IF b.assignedTo = None THEN <<>> ELSE <<[fn |-> "User.findById", id |-> b.assignedTo[1]]>>

\* .populate('assignedTo', 'name email'): a read of User when the path is set.
Populate(t) ==
    IF t.assignedTo = None THEN <<>> ELSE <<[fn |-> "User.find", id |-> t.assignedTo[1]]>>

OrElse(v, d) == IF v = None THEN d ELSE v[1]

\* new Task({title, description, status, priority, category, assignedTo,
\* dueDate, tags, createdBy}) with the schema defaults.
NewTask(b) ==
    [title |-> b.title[1],
     status |-> OrElse(b.status, DefaultStatus),
     priority |-> OrElse(b.priority, DefaultPriority),
     category |-> OrElse(b.category, DefaultCategory),
     dueDate |-> b.dueDate,
     assignedTo |-> b.assignedTo,
     completedAt |-> None]

Insert(store, id, doc) == [i \in DOMAIN store \cup {id} |-> IF i = id THEN doc ELSE store[i]]

Remove(store, ids) == [i \in DOMAIN store \ ids |-> store[i]]

\* router.post('/') after the validation middleware.
PostHandler(b) ==
    IF b.assignedTo # None /\ ~UserExists(b.assignedTo[1])
    THEN Out(Fail(400, "Assigned user not found"), AssignedLookup(b))
    ELSE IF ~SchemaValid(b, TRUE)
    THEN Out(Fail(500, "Server error while creating task"), AssignedLookup(b))
    ELSE LET saved == PreSave(NewTask(b), TRUE)
             id == nextTask
         IN [Out([status |-> 201, success |-> TRUE, data |-> TaskJSON(id, saved),
                  message |-> "Task created successfully"],
                 AssignedLookup(b) \o <<[fn |-> "Task.save", id |-> id]>> \o Populate(saved))
             EXCEPT !.tasks = Insert(tasks, id, saved), !.nextTask = id + 1]

PostTask(b) == handleValidationErrors(ValidateCreate(b), PostHandler(Sanitize(b)))

\* The update document of findByIdAndUpdate: an undefined value sets nothing.
ApplySet(t, set) ==
    [title |-> OrElse(set.title, t.title),
     status |-> OrElse(set.status, t.status),
     priority |-> OrElse(set.priority, t.priority),
     category |-> OrElse(set.category, t.category),
     dueDate |-> IF set.dueDate = None THEN t.dueDate ELSE set.dueDate,
     assignedTo |-> IF set.assignedTo = None THEN t.assignedTo ELSE set.assignedTo,
     completedAt |-> IF set.completedAt = None THEN t.completedAt ELSE set.completedAt]

FindById(id) == [fn |-> "Task.findById", id |-> id]

\* router.put('/:id') after the validation middleware.
PutHandler(id, b) ==
    IF id \notin DOMAIN tasks
    THEN Out(Fail(404, "Task not found"), <<FindById(id)>>)
    ELSE IF b.assignedTo # None /\ ~UserExists(b.assignedTo[1])
    THEN Out(Fail(400, "Assigned user not found"), <<FindById(id)>> \o AssignedLookup(b))
    ELSE IF ~SchemaValid(b, FALSE)
    THEN Out(Fail(500, "Server error while updating task"), <<FindById(id)>> \o AssignedLookup(b))
    ELSE LET set == [title |-> b.title, status |-> b.status, priority |-> b.priority,
                     category |-> b.category, dueDate |-> b.dueDate,
                     assignedTo |-> b.assignedTo, completedAt |-> None]
             updated == ApplySet(tasks[id], set)
         IN [Out([status |-> 200, success |-> TRUE, data |-> TaskJSON(id, updated),
                  message |-> "Task updated successfully"],
                 <<FindById(id)>> \o AssignedLookup(b)
                   \o <<[fn |-> "Task.findByIdAndUpdate", id |-> id]>> \o Populate(updated))
             EXCEPT !.tasks = Insert(tasks, id, updated)]

PutTask(id, b) == handleValidationErrors(ValidateUpdate(id, b), PutHandler(id, Sanitize(b)))

\* router.patch('/:id/status').  taskValidationRules.status is not defined in
\* validation.js; the route is taken as registered without a chain, so that
\* the handler runs on every request: a malformed id makes findById throw a
\* CastError before any query is sent.
PatchStatus(id, status) ==
    IF id < 1
    THEN Out(Fail(500, "Server error while updating task status"), <<>>)
    ELSE IF id \notin DOMAIN tasks
    THEN Out(Fail(404, "Task not found"), <<FindById(id)>>)
    ELSE IF status # None /\ status[1] \notin Statuses
    THEN Out(Fail(500, "Server error while updating task status"), <<FindById(id)>>)
    ELSE LET set == [title |-> None, status |-> status, priority |-> None,
                     category |-> None, dueDate |-> None, assignedTo |-> None,
                     completedAt |-> IF status = Some("completed") THEN Some(now) ELSE None]
             updated == ApplySet(tasks[id], set)
         IN [Out([status |-> 200, success |-> TRUE, data |-> TaskJSON(id, updated),
                  message |-> "Task status updated successfully"],
                 <<FindById(id), [fn |-> "Task.findByIdAndUpdate", id |-> id]>>
                   \o Populate(updated))
             EXCEPT !.tasks = Insert(tasks, id, updated)]

\* router.get('/:id') (taskValidationRules.params is not defined either).
GetTask(id) ==
    IF id < 1
    THEN Out(Fail(500, "Server error while fetching task"), <<>>)
    ELSE IF id \notin DOMAIN tasks
    THEN Out(Fail(404, "Task not found"), <<FindById(id)>>)
    ELSE Out([status |-> 200, success |-> TRUE, data |-> TaskJSON(id, tasks[id])],
             <<FindById(id)>> \o Populate(tasks[id]))

\* Mutant: the delete does not look the Task up first.
DeleteTaskBlind(id) ==
    IF id < 1
    THEN Out(Fail(500, "Server error while deleting task"), <<>>)
    ELSE [Out([status |-> 200, success |-> TRUE, message |-> "Task deleted successfully"],
              <<[fn |-> "Task.findByIdAndDelete", id |-> id]>>)
          EXCEPT !.tasks = Remove(tasks, {id})]

\* router.delete('/:id')
DeleteTask(id) ==
    IF id < 1
    THEN Out(Fail(500, "Server error while deleting task"), <<>>)
    ELSE IF id \notin DOMAIN tasks
    THEN Out(Fail(404, "Task not found"), <<FindById(id)>>)
    ELSE [Out([status |-> 200, success |-> TRUE, message |-> "Task deleted successfully"],
              <<FindById(id), [fn |-> "Task.findByIdAndDelete", id |-> id]>>)
          EXCEPT !.tasks = Remove(tasks, {id})]

\* taskSchema.methods.markAsCompleted on the stored document id: sets status
\* and completedAt, then save() runs the pre('save') hook.
markAsCompleted(id) ==
    LET t == tasks[id]
        set == [t EXCEPT !.status = "completed", !.completedAt = Some(now)]
    IN Insert(tasks, id, PreSave(set, t.status # "completed"))

\* ---------------------------------------------- routes/tasks.js: the list

PageDefault == 1
LimitDefault == 10

\* A condition of a store query on one field.
NoCond == [op |-> "any"]
Eq(v) == [op |-> "eq", v |-> v]
Ne(v) == [op |-> "ne", v |-> v]
Lt(v) == [op |-> "lt", v |-> v]

EqIfGiven(v) == IF v = None THEN NoCond ELSE Eq(v[1])

\* Mutant: the overdue flag forgets the due date condition.
OverdueFilterStatusOnly(query, overdue) ==
    IF overdue = Some("true") THEN [query EXCEPT !.status = Ne("completed")] ELSE query

\* Mutant: an explicit status filter survives the overdue flag.
OverdueFilterKeepsStatus(query, overdue) ==
    IF overdue = Some("true")
    THEN [query EXCEPT !.dueDate = Lt(now),
                       !.status = IF @ = NoCond THEN Ne("completed") ELSE @]
    ELSE query

\* if (overdue === 'true') { query.dueDate = {$lt: new Date()};
\*                           query.status = {$ne: 'completed'}; }
OverdueFilter(query, overdue) ==
    IF overdue = Some("true")
    THEN [query EXCEPT !.dueDate = Lt(now), !.status = Ne("completed")]
    ELSE query

\* The query object router.get('/') builds from req.query.
BuildQuery(q) ==
    OverdueFilter(
        [status |-> EqIfGiven(q.status),
         priority |-> EqIfGiven(q.priority),
         category |-> EqIfGiven(q.category),
         assignedTo |-> EqIfGiven(q.assignedTo),
         search |-> IF q.search = Some("") THEN None ELSE q.search,
         dueDate |-> NoCond],
        q.overdue)

\* The store's evaluation of one condition on a field that may be missing.
Sat(c, field) ==
    CASE c.op = "any" -> TRUE
      [] c.op = "eq" -> field # None /\ field[1] = c.v
      [] c.op = "ne" -> field = None \/ field[1] # c.v
      [] c.op = "lt" -> field # None /\ field[1] < c.v

Matches(t, query) ==
    /\ Sat(query.status, Some(t.status))
    /\ Sat(query.priority, Some(t.priority))
    /\ Sat(query.category, Some(t.category))
    /\ Sat(query.assignedTo, t.assignedTo)
    /\ Sat(query.dueDate, t.dueDate)
    /\ (query.search = None \/ RegexI(t.title, query.search[1]))

Matching(query) == {i \in DOMAIN tasks : Matches(tasks[i], query)}

Reverse(s) == [i \in 1..Len(s) |-> s[Len(s) + 1 - i]]

\* Ids are handed out in creation order, so createdAt orders like the id.
ByCreatedAt(ids, sortOrder) ==
    LET asc == SelectSeq([i \in 1..(nextTask - 1) |-> i], LAMBDA i : i \in ids)
    IN IF sortOrder = Some("asc") THEN asc ELSE Reverse(asc)

\* .skip(skip).limit(limit) of a sorted result.
Window(s, skip, limit) ==
    SubSeq(s, skip + 1, IF skip + limit < Len(s) THEN skip + limit ELSE Len(s))

\* Mutant: the skip is one page too far.
SkipPageTooFar(page, limit) == page * limit

\* (parseInt(page) - 1) * parseInt(limit)
Skip(page, limit) == (page - 1) * limit

\* Math.ceil(total / limit)
TotalPages(total, limit) ==
    IF total % limit = 0 THEN total \div limit ELSE total \div limit + 1

\* router.get('/') after the validation middleware.
ListHandler(q) ==
    LET page == OrElse(q.page, PageDefault)
        limit == OrElse(q.limit, LimitDefault)
        query == BuildQuery(q)
        skip == Skip(page, limit)
        data == Window(ByCreatedAt(Matching(query), q.sortOrder), skip, limit)
        total == Cardinality(Matching(query))
        totalPages == TotalPages(total, limit)
    IN Out([status |-> 200, success |-> TRUE, data |-> data,
            pagination |-> [currentPage |-> page, totalPages |-> totalPages,
                            totalTasks |-> total, hasNextPage |-> page < totalPages,
                            hasPrevPage |-> page > 1]],
           <<[fn |-> "Task.find", query |-> query, skip |-> skip, limit |-> limit],
             [fn |-> "Task.countDocuments", query |-> query]>>)

ListTasks(q) == handleValidationErrors(ValidateQuery(q), ListHandler(q))

\* ------------------------------------------------------------- requests

Body(title, status, priority, category, dueDate, assignedTo) ==
    [title |-> title, status |-> status, priority |-> priority, category |-> category,
     dueDate |-> dueDate, assignedTo |-> assignedTo]

\* Request bodies of the life-cycle specification: titles, statuses and
\* user references of every kind, no due date.
LifeBodies ==
    {Body(Some("Ab"), s, p, None, None, a) :
        s \in {None, Some("completed"), Some("in-progress")},
        p \in {None, Some("high")},
        a \in {None, Some(1), Some(2)}}
    \cup
    {Body(t, s, None, None, None, a) :
        t \in {None, Some(""), Some("Ab")},
        s \in {None, Some("bogus")},
        a \in {None, Some(0)}}

\* Bodies of full updates: as above, with or without a title.
UpdateBodies ==
    {Body(t, s, None, None, None, a) :
        t \in {None, Some("Ab")},
        s \in {None, Some("completed"), Some("in-progress")},
        a \in {None, Some(1), Some(2)}}
    \cup
    {Body(t, s, None, None, None, a) :
        t \in {None, Some("")},
        s \in {None, Some("bogus")},
        a \in {None, Some(0)}}

Query(page, limit, status, priority, search, overdue, sortOrder) ==
    [page |-> page, limit |-> limit, status |-> status, priority |-> priority,
     category |-> None, assignedTo |-> None, search |-> search, overdue |-> overdue,
     sortOrder |-> sortOrder]

LifeQueries ==
    {Query(None, l, s, None, None, None, None) :
        l \in {None, Some(101)}, s \in {None, Some("completed"), Some("bogus")}}

\* Requests of the list specification: tasks that differ in what the list
\* filters read (title, status, priority, due date), and list queries: every
\* combination of the filters, pages and limits with and without the
\* priority and overdue filters, and queries the validation refuses.
ListBodies ==
    {Body(Some(t), s, p, None, d, None) :
        t \in {"Ab", "b"},
        s \in {None, Some("completed")},
        p \in {None, Some("high")},
        d \in {None, Some(1)}}

ListQueries ==
    {Query(None, None, s, p, x, o, None) :
        s \in {None, Some("pending"), Some("completed")},
        p \in {None, Some("high")},
        x \in {None, Some("a")},
        o \in {None, Some("true")}}
    \cup
    {Query(pg, l, None, p, None, o, None) :
        pg \in {None, Some(2)},
        l \in {Some(1), Some(2)},
        p \in {None, Some("high")},
        o \in {None, Some("true")}}
    \cup
    {Query(pg, l, s, None, None, None, o) :
        pg \in {None, Some(0)},
        l \in {None, Some(0), Some(101)},
        s \in {None, Some("bogus")},
        o \in {None, Some("asc"), Some("up")}}

\* --------------------------------------------------------------- actions

\* The handler's outcome becomes the state: the store it left and, in last,
\* the request with its response and store calls.
Handle(op, req, out) ==
    /\ last' = [op |-> op, req |-> req, res |-> out.res, calls |-> out.calls]
    /\ users' = out.users
    /\ tasks' = out.tasks
    /\ projects' = out.projects
    /\ nextUser' = out.nextUser
    /\ nextTask' = out.nextTask
    /\ nextProject' = out.nextProject
    /\ UNCHANGED <<app, now, inflight>>

Ready(a) == app = a /\ last = Idle

TaskIds == 0..MaxTasks

Post(bodies) ==
    /\ Ready("router")
    /\ nextTask <= MaxTasks
    /\ \E b \in bodies : Handle("post", b, PostTask(b))

Put(bodies) ==
    /\ Ready("router")
    /\ \E id \in TaskIds, b \in bodies : Handle("put", [id |-> id, body |-> b], PutTask(id, b))

Patch ==
    /\ Ready("router")
    /\ \E id \in TaskIds, s \in {None, Some("bogus")} \cup {Some(x) : x \in Statuses} :
          Handle("patch", [id |-> id, status |-> s], PatchStatus(id, s))

Get ==
    /\ Ready("router")
    /\ \E id \in TaskIds : Handle("get", [id |-> id], GetTask(id))

Delete ==
    /\ Ready("router")
    /\ \E id \in TaskIds : Handle("delete", [id |-> id], DeleteTask(id))

List(queries) ==
    /\ Ready("router")
    /\ \E q \in queries : Handle("list", q, ListTasks(q))

MarkAsCompleted ==
    /\ Ready("router")
    /\ \E id \in DOMAIN tasks :
          /\ tasks' = markAsCompleted(id)
          /\ last' = [op |-> "markAsCompleted", req |-> [id |-> id],
                      calls |-> <<[fn |-> "Task.save", id |-> id]>>]
    /\ UNCHANGED <<app, now, users, projects, nextUser, nextTask, nextProject, inflight>>

\* The response reaches the client; the server is ready for the next request.
Deliver ==
    /\ last # Idle
    /\ last' = Idle
    /\ UNCHANGED <<app, now, users, tasks, projects, nextUser, nextTask, nextProject,
                   inflight>>

\* Time passes between requests.
Tick ==
    /\ Ready("router")
    /\ now < MaxTime
    /\ now' = now + 1
    /\ UNCHANGED <<app, users, tasks, projects, nextUser, nextTask, nextProject, last,
                   inflight>>

Empty == [i \in {} |-> None]

\* ------------------------------------------------ part_000: the schemas

UsernameMin == 3
UsernameMax == 30
PasswordMin == 6

MonoStatuses == {"pending", "in-progress", "completed"}
MonoPriorities == {"low", "medium", "high"}

\* match: /^\S+@\S+\.\S+$/
EmailMatch(e) ==
    LET cs == Chars(e)
    IN /\ \A k \in 1..Len(cs) : cs[k] # " "
       /\ \E i, j \in 1..Len(cs) :
             cs[i] = "@" /\ cs[j] = "." /\ i > 1 /\ j > i + 1 /\ j < Len(cs)

\* The messages of the ValidationError that user.save() throws.
UserSchemaErrors(b) ==
    (IF StrLen(b.username[1]) < UsernameMin \/ StrLen(b.username[1]) > UsernameMax
     THEN <<"username">> ELSE <<>>)
    \o (IF EmailMatch(b.email[1]) THEN <<>> ELSE <<"email">>)
    \o (IF StrLen(b.password[1]) < PasswordMin THEN <<"password">> ELSE <<>>)

\* The unique indexes of userSchema that a new user would violate.
DuplicateKeys(b) ==
    {f \in {"username", "email"} : \E u \in DOMAIN users : users[u][f] = b[f][1]}

\* ------------------------------------------ part_000: the error handler

ValidationErrorResponse(errors) ==
    [status |-> 400, success |-> FALSE, message |-> "Validation Error", errors |-> errors]

\* err.code === 11000: `${field} already exists`
DuplicateKeyResponse(field) ==
    [status |-> 400, success |-> FALSE,
     message |-> IF field = "email" THEN "email already exists"
                 ELSE "username already exists"]

InternalServerError == Fail(500, "Internal Server Error")

\* ------------------------------------------------ part_000: the handlers

Falsy(v) == v = None \/ v = Some("")

\* app.post('/api/users').  pick is the index the store reports when the
\* new user violates both unique indexes.
CreateUser(b, pick) ==
    IF Falsy(b.username) \/ Falsy(b.email) \/ Falsy(b.password)
    THEN Out(Fail(400, "Username, email, and password are required"), <<>>)
    ELSE IF UserSchemaErrors(b) # <<>>
    THEN Out(ValidationErrorResponse(UserSchemaErrors(b)), <<>>)
    ELSE IF DuplicateKeys(b) # {}
    THEN Out(DuplicateKeyResponse(IF pick \in DuplicateKeys(b) THEN pick
                                  ELSE CHOOSE f \in DuplicateKeys(b) : TRUE),
             <<[fn |-> "User.save", id |-> nextUser]>>)
    ELSE LET user == [username |-> b.username[1], email |-> b.email[1]]
         IN [Out([status |-> 201, success |-> TRUE, message |-> "User created successfully",
                  data |-> [id |-> nextUser, username |-> user.username, email |-> user.email]],
                 <<[fn |-> "User.save", id |-> nextUser]>>)
             EXCEPT !.users = Insert(users, nextUser, user), !.nextUser = nextUser + 1]

OwnedBy(store, id) == {i \in DOMAIN store : store[i].userId = id}

\* Mutant: the user is deleted without the cascade.
DeleteUserNoCascade(id) ==
    IF id < 1
    THEN Out(Fail(500, "Internal Server Error"), <<>>)
    ELSE IF id \notin DOMAIN users
    THEN Out(Fail(404, "User not found"), <<[fn |-> "User.findByIdAndDelete", id |-> id]>>)
    ELSE [Out([status |-> 200, success |-> TRUE,
               message |-> "User and associated data deleted successfully"],
              <<[fn |-> "User.findByIdAndDelete", id |-> id]>>)
          EXCEPT !.users = Remove(users, {id})]

\* app.delete('/api/users/:id')
DeleteUser(id) ==
    IF id < 1
    THEN Out(InternalServerError, <<>>)
    ELSE IF id \notin DOMAIN users
    THEN Out(Fail(404, "User not found"), <<[fn |-> "User.findByIdAndDelete", id |-> id]>>)
    ELSE [Out([status |-> 200, success |-> TRUE,
               message |-> "User and associated data deleted successfully"],
              <<[fn |-> "User.findByIdAndDelete", id |-> id],
                [fn |-> "Task.deleteMany", userId |-> id],
                [fn |-> "Project.deleteMany", userId |-> id]>>)
          EXCEPT !.users = Remove(users, {id}),
                 !.tasks = Remove(tasks, OwnedBy(tasks, id)),
                 !.projects = Remove(projects, OwnedBy(projects, id))]

\* app.post('/api/tasks')
MonoCreateTask(b) ==
    IF Falsy(b.title) \/ b.userId = None
    THEN Out(Fail(400, "Title and userId are required"), <<>>)
    ELSE IF b.userId[1] < 1
    THEN Out(InternalServerError, <<>>)
    ELSE IF ~UserExists(b.userId[1])
    THEN Out(Fail(400, "Invalid userId"), <<[fn |-> "User.findById", id |-> b.userId[1]]>>)
    ELSE IF b.status # None /\ b.status[1] \notin MonoStatuses
    THEN Out(ValidationErrorResponse(<<"status">>),
             <<[fn |-> "User.findById", id |-> b.userId[1]]>>)
    ELSE LET task == [userId |-> b.userId[1], status |-> OrElse(b.status, "pending")]
         IN [Out([status |-> 201, success |-> TRUE, message |-> "Task created successfully",
                  data |-> [id |-> nextTask, userId |-> task.userId, status |-> task.status]],
                 <<[fn |-> "User.findById", id |-> task.userId],
                   [fn |-> "Task.save", id |-> nextTask],
                   [fn |-> "User.find", id |-> task.userId]>>)
             EXCEPT !.tasks = Insert(tasks, nextTask, task), !.nextTask = nextTask + 1]

\* app.post('/api/projects')
MonoCreateProject(b) ==
    IF Falsy(b.name) \/ b.userId = None
    THEN Out(Fail(400, "Project name and userId are required"), <<>>)
    ELSE IF b.userId[1] < 1
    THEN Out(InternalServerError, <<>>)
    ELSE IF ~UserExists(b.userId[1])
    THEN Out(Fail(400, "Invalid userId"), <<[fn |-> "User.findById", id |-> b.userId[1]]>>)
    ELSE LET project == [userId |-> b.userId[1], status |-> "active"]
         IN [Out([status |-> 201, success |-> TRUE, message |-> "Project created successfully",
                  data |-> [id |-> nextProject, userId |-> project.userId]],
                 <<[fn |-> "User.findById", id |-> project.userId],
                   [fn |-> "Project.save", id |-> nextProject],
                   [fn |-> "User.find", id |-> project.userId]>>)
             EXCEPT !.projects = Insert(projects, nextProject, project),
                    !.nextProject = nextProject + 1]

MonoMatching(query) ==
    {i \in DOMAIN tasks :
        /\ Sat(query.status, Some(tasks[i].status))
        /\ Sat(query.userId, Some(tasks[i].userId))}

\* app.get('/api/tasks') for numeric page and limit >= 1: a malformed userId
\* makes find throw a CastError, a negative skip is refused by the store.
MonoListTasks(q) ==
    LET page == OrElse(q.page, PageDefault)
        limit == OrElse(q.limit, LimitDefault)
        query == [status |-> IF Falsy(q.status) THEN NoCond ELSE Eq(q.status[1]),
                  userId |-> EqIfGiven(q.userId)]
        skip == Skip(page, limit)
        data == Window(ByCreatedAt(MonoMatching(query), None), skip, limit)
        total == Cardinality(MonoMatching(query))
    IN IF q.userId # None /\ q.userId[1] < 1
       THEN Out(InternalServerError, <<>>)
       ELSE IF skip < 0
       THEN Out(InternalServerError,
                <<[fn |-> "Task.find", query |-> query, skip |-> skip, limit |-> limit]>>)
       ELSE Out([status |-> 200, success |-> TRUE, data |-> data,
                 pagination |-> [page |-> page, limit |-> limit, total |-> total,
                                 pages |-> TotalPages(total, limit)]],
                <<[fn |-> "Task.find", query |-> query, skip |-> skip, limit |-> limit],
                  [fn |-> "Task.countDocuments", query |-> query]>>)

\* ------------------------------------------------ part_000: the actions

UserBodies ==
    {[username |-> u, email |-> e, password |-> p] :
        u \in {None, Some("al"), Some("amy"), Some("bob")},
        e \in {None, Some("nomail"), Some("a@x.io"), Some("b@x.io")},
        p \in {Some("secret")}}

UserIds == 0..MaxUsers

MonoTaskBodies ==
    {[title |-> t, userId |-> u, status |-> s] :
        t \in {None, Some("Ab")},
        u \in {None} \cup {Some(i) : i \in UserIds},
        s \in {None, Some("completed"), Some("bogus")}}

MonoProjectBodies ==
    {[name |-> n, userId |-> u] :
        n \in {None, Some("Ab")}, u \in {None} \cup {Some(i) : i \in UserIds}}

MonoQueries ==
    {[page |-> p, limit |-> l, status |-> s, userId |-> u] :
        p \in {None, Some(0), Some(2)},
        l \in {None, Some(1)},
        s \in {None, Some("completed"), Some("bogus")},
        u \in {None} \cup {Some(i) : i \in UserIds}}

PostUser ==
    /\ Ready("mono")
    /\ nextUser <= MaxUsers
    /\ \E b \in UserBodies, pick \in {"username", "email"} :
          Handle("postUser", b, CreateUser(b, pick))

DeleteUserReq ==
    /\ Ready("mono")
    /\ \E id \in UserIds : Handle("deleteUser", [id |-> id], DeleteUser(id))

MonoPostTask ==
    /\ Ready("mono")
    /\ nextTask <= MaxTasks
    /\ \E b \in MonoTaskBodies : Handle("monoPostTask", b, MonoCreateTask(b))

MonoPostProject ==
    /\ Ready("mono")
    /\ nextProject <= MaxProjects
    /\ \E b \in MonoProjectBodies : Handle("monoPostProject", b, MonoCreateProject(b))

MonoList ==
    /\ Ready("mono")
    /\ \E q \in MonoQueries : Handle("monoList", q, MonoListTasks(q))

MonoNext ==
    \/ PostUser
    \/ DeleteUserReq
    \/ MonoPostTask
    \/ MonoPostProject
    \/ MonoList

InitMono ==
    /\ app = "mono"
    /\ users = Empty
    /\ nextUser = 1


InitRouter ==
    /\ app = "router"
    /\ users = [i \in {1} |-> [username |-> "amy", email |-> "a@x.io"]]
    /\ nextUser = 2

Init ==
    /\ (InitRouter \/ InitMono)
    /\ now = 0
    /\ tasks = Empty
    /\ projects = Empty
    /\ nextTask = 1
    /\ nextProject = 1
    /\ last = Idle
    /\ inflight = Empty

Next ==
    \/ Post(LifeBodies)
    \/ Put(UpdateBodies)
    \/ Patch
    \/ Get
    \/ Delete
    \/ List(LifeQueries)
    \/ MarkAsCompleted
    \/ MonoNext
    \/ Deliver

Spec == Init /\ [][Next]_vars

\* The list specification: tasks are created and time passes, so that due
\* dates fall behind now, and lists are queried.
ListNext ==
    \/ Post(ListBodies)
    \/ List(ListQueries)
    \/ Tick
    \/ MonoNext
    \/ Deliver

ListSpec == Init /\ [][ListNext]_vars

\* The update specification: tasks with and without a due date are created,
\* time passes, and full updates carry due dates before, at and after now.
DueBodies ==
    {Body(Some("Ab"), None, None, None, d, None) : d \in {None, Some(1), Some(2)}}

DueUpdates ==
    {Body(t, s, None, None, d, None) :
        t \in {None, Some("b")},
        s \in {None, Some("completed")},
        d \in {None, Some(-1), Some(0), Some(1), Some(2)}}

\* A request body that also carries estimatedHours.
WithHours(b, h) ==
    [f \in DOMAIN b \cup {"estimatedHours"} |-> IF f = "estimatedHours" THEN h ELSE b[f]]

\* Create bodies: the ones above, a title of one space, and bodies with
\* estimatedHours inside and outside 0..1000.
CreateBodies ==
    DueBodies
    \cup {Body(Some(" "), None, None, None, None, None)}
    \cup {WithHours(Body(Some("Ab"), Some("cancelled"), None, None, None, None), h) :
            h \in {Some(5), Some(2000)}}

UpdateInit == Init /\ app = "router"

UpdateNext ==
    \/ Post(CreateBodies)
    \/ Put(DueUpdates)
    \/ Tick
    \/ Deliver

UpdateSpec == UpdateInit /\ [][UpdateNext]_vars

\* ------------------------------------------------------------ statistics

\* taskSchema.statics.getOverdueTasks: find({dueDate: {$lt: new Date()},
\* status: {$ne: 'completed'}}); a query condition on a missing field does
\* not match.
getOverdueTasks == Matching(OverdueFilter(BuildQuery(Query(None, None, None, None, None, None, None)),
                                          Some("true")))

\* taskSchema.statics.getTaskStats: three $group stages by status, priority
\* and category; a group exists only for a value some Task has.
getTaskStats ==
    LET CountBy(f) ==
            [v \in {tasks[i][f] : i \in DOMAIN tasks} |->
                Cardinality({i \in DOMAIN tasks : tasks[i][f] = v})]
    IN [byStatus |-> CountBy("status"), byPriority |-> CountBy("priority"),
        byCategory |-> CountBy("category")]

\* router.get('/stats/summary'): one $group over all Tasks.  overdue sums
\* $cond on {$and: [{$lt: ['$dueDate', new Date()]}, {$ne: ['$status',
\* 'completed']}]}; an aggregation expression compares a missing dueDate as
\* null, which orders below every date, so $lt holds for a Task without one.
\* Without any Task the handler answers the all-zero summary.
StatsSummary ==
    LET Count(P(_)) == Cardinality({i \in DOMAIN tasks : P(tasks[i])})
    IN Out([status |-> 200, success |-> TRUE,
            data |-> [total |-> Cardinality(DOMAIN tasks),
                      pending |-> Count(LAMBDA t : t.status = "pending"),
                      inProgress |-> Count(LAMBDA t : t.status = "in-progress"),
                      completed |-> Count(LAMBDA t : t.status = "completed"),
                      overdue |-> Count(LAMBDA t : /\ (t.dueDate = None \/ t.dueDate[1] < now)
                                                   /\ t.status # "completed")]],
           <<[fn |-> "Task.aggregate"]>>)

Stats ==
    /\ Ready("router")
    /\ Handle("stats", [path |-> "/stats/summary"], StatsSummary)

\* The statistics specification: tasks with and without a due date are
\* created, time passes, and the summary is requested.
StatsNext ==
    \/ Post(ListBodies)
    \/ Stats
    \/ Tick
    \/ Deliver

StatsSpec == UpdateInit /\ [][StatsNext]_vars

\* ------------------------------------------------------ failing store calls

\* Errors a store call can throw without the request being at fault: the
\* connection is lost, the operation times out.
StoreErrors ==
    {[name |-> "MongoNetworkError", code |-> None, message |-> "connection lost"],
     [name |-> "MongoServerError", code |-> Some("MaxTimeMSExpired"),
      message |-> "operation exceeded time limit"]}

CatchMessage(op) ==
    CASE op = "list" -> "Server error while fetching tasks"
      [] op = "get" -> "Server error while fetching task"
      [] op = "post" -> "Server error while creating task"
      [] op = "put" -> "Server error while updating task"
      [] op = "delete" -> "Server error while deleting task"
      [] op = "patch" -> "Server error while updating task status"

\* Mutant: the catch block answers with the message of the error.
CatchLeaky(op, err) == Fail(500, err.message)

\* The catch block of a route of routes/tasks.js.
Catch(op, err) == Fail(500, CatchMessage(op))

\* The global error handler of part_000, which asyncHandler hands every
\* rejection to.
ErrorHandler(err) ==
    IF err.name = "ValidationError" THEN ValidationErrorResponse(err.errors)
    ELSE IF err.code = Some("11000") THEN DuplicateKeyResponse(err.field)
    ELSE InternalServerError

OnError(op, err) == IF app = "router" THEN Catch(op, err) ELSE ErrorHandler(err)

WroteBefore(calls, k, fns) == \E j \in 1..(k - 1) : calls[j].fn \in fns

\* Mutant: a failing store call rolls back what the handler wrote.
FailAtRollback(out, k, res) ==
    [res |-> res, calls |-> SubSeq(out.calls, 1, k), users |-> users,
     nextUser |-> nextUser, tasks |-> tasks, nextTask |-> nextTask,
     projects |-> projects, nextProject |-> nextProject]

\* The outcome of a handler whose k-th store call throws: the calls before
\* it took effect, the handler answers res.  out is the outcome had no call
\* thrown; a handler writes a collection at most once.
FailAt(out, k, res) ==
    LET user == WroteBefore(out.calls, k, {"User.save", "User.findByIdAndDelete"})
        task == WroteBefore(out.calls, k,
                    {"Task.save", "Task.findByIdAndUpdate", "Task.findByIdAndDelete",
                     "Task.deleteMany"})
        project == WroteBefore(out.calls, k, {"Project.save", "Project.deleteMany"})
    IN [res |-> res, calls |-> SubSeq(out.calls, 1, k),
        users |-> IF user THEN out.users ELSE users,
        nextUser |-> IF user THEN out.nextUser ELSE nextUser,
        tasks |-> IF task THEN out.tasks ELSE tasks,
        nextTask |-> IF task THEN out.nextTask ELSE nextTask,
        projects |-> IF project THEN out.projects ELSE projects,
        nextProject |-> IF project THEN out.nextProject ELSE nextProject]

\* A request is handled and one of its store calls throws err.
Faulty(op, req, out) ==
    \E err \in StoreErrors, k \in 1..Len(out.calls) :
        LET f == FailAt(out, k, OnError(op, err))
        IN /\ last' = [op |-> op, req |-> req, res |-> f.res, calls |-> f.calls,
                       err |-> err]
           /\ users' = f.users
           /\ tasks' = f.tasks
           /\ projects' = f.projects
           /\ nextUser' = f.nextUser
           /\ nextTask' = f.nextTask
           /\ nextProject' = f.nextProject
           /\ UNCHANGED <<app, now, inflight>>

FaultBodies ==
    {Body(Some("Ab"), s, None, None, None, a) :
        s \in {None, Some("completed")}, a \in {None, Some(1)}}

FaultQueries == {Query(None, None, s, None, None, None, None) : s \in {None, Some("completed")}}

FaultMonoQueries ==
    {[page |-> None, limit |-> None, status |-> None, userId |-> u] : u \in {None, Some(1)}}

FailPost ==
    /\ Ready("router")
    /\ nextTask <= MaxTasks
    /\ \E b \in FaultBodies : Faulty("post", b, PostTask(b))

FailPut ==
    /\ Ready("router")
    /\ \E id \in TaskIds, b \in FaultBodies :
          Faulty("put", [id |-> id, body |-> b], PutTask(id, b))

FailPatch ==
    /\ Ready("router")
    /\ \E id \in TaskIds, st \in {Some("completed"), Some("pending")} :
          Faulty("patch", [id |-> id, status |-> st], PatchStatus(id, st))

FailGet ==
    /\ Ready("router")
    /\ \E id \in TaskIds : Faulty("get", [id |-> id], GetTask(id))

FailDelete ==
    /\ Ready("router")
    /\ \E id \in TaskIds : Faulty("delete", [id |-> id], DeleteTask(id))

FailList ==
    /\ Ready("router")
    /\ \E q \in FaultQueries : Faulty("list", q, ListTasks(q))

FailPostUser ==
    /\ Ready("mono")
    /\ nextUser <= MaxUsers
    /\ \E b \in UserBodies : Faulty("postUser", b, CreateUser(b, "email"))

FailDeleteUser ==
    /\ Ready("mono")
    /\ \E id \in UserIds : Faulty("deleteUser", [id |-> id], DeleteUser(id))

FailMonoPostTask ==
    /\ Ready("mono")
    /\ nextTask <= MaxTasks
    /\ \E b \in MonoTaskBodies : Faulty("monoPostTask", b, MonoCreateTask(b))

FailMonoPostProject ==
    /\ Ready("mono")
    /\ nextProject <= MaxProjects
    /\ \E b \in MonoProjectBodies : Faulty("monoPostProject", b, MonoCreateProject(b))

FailMonoList ==
    /\ Ready("mono")
    /\ \E q \in FaultMonoQueries : Faulty("monoList", q, MonoListTasks(q))

\* The fault specification: requests are handled as before, and any store
\* call of any handler may throw.
FaultNext ==
    \/ Post(FaultBodies)
    \/ FailPost
    \/ FailPut
    \/ FailPatch
    \/ FailGet
    \/ FailDelete
    \/ FailList
    \/ PostUser
    \/ MonoPostTask
    \/ MonoPostProject
    \/ FailPostUser
    \/ FailDeleteUser
    \/ FailMonoPostTask
    \/ FailMonoPostProject
    \/ FailMonoList
    \/ Deliver

FaultSpec == Init /\ [][FaultNext]_vars

\* --------------------------------------------- part_000: requests at once

\* Requests the server works on at the same time.  A handler runs until its
\* next await; what it awaits is one store call, which is one step.
MaxInflight == 2

Slots == 1..MaxInflight

Free(slot) == app = "mono" /\ slot \notin DOMAIN inflight

At(slot, op, pc) ==
    /\ slot \in DOMAIN inflight
    /\ inflight[slot].op = op
    /\ inflight[slot].pc = pc

\* The request in slot moves on to pc, keeping what it holds and taking
\* the fields of more; sent counts the responses written (a res in more is
\* one res.json call).
Goto(slot, pc, more) ==
    inflight' =
        Insert(inflight, slot,
            [f \in DOMAIN inflight[slot] \cup DOMAIN more |->
                IF f = "pc" THEN pc
                ELSE IF f = "sent"
                     THEN inflight[slot].sent + (IF "res" \in DOMAIN more THEN 1 ELSE 0)
                ELSE IF f \in DOMAIN more THEN more[f] ELSE inflight[slot][f]])

Begin(slot, op, req, pc, more) ==
    inflight' =
        Insert(inflight, slot,
            [f \in {"op", "req", "pc", "sent"} \cup DOMAIN more |->
                CASE f = "op" -> op [] f = "req" -> req [] f = "pc" -> pc
                  [] f = "sent" -> IF "res" \in DOMAIN more THEN 1 ELSE 0
                  [] OTHER -> more[f]])

NoMore == [f \in {} |-> None]

Answer(res) == [f \in {"res"} |-> res]

StoreUnchanged == UNCHANGED <<users, tasks, projects, nextUser, nextTask, nextProject>>

RaceBodies == {[title |-> Some("Ab"), userId |-> Some(u), status |-> None] : u \in 1..MaxUsers}

RaceProjectBodies == {[name |-> Some("Ab"), userId |-> Some(u)] : u \in 1..MaxUsers}

RaceQueries ==
    {[page |-> None, limit |-> None, status |-> None, userId |-> u] : u \in {None, Some(1)}}

\* app.post('/api/tasks') up to and including await User.findById(userId).
TaskFindUser(slot) ==
    /\ Free(slot)
    /\ nextTask <= MaxTasks
    /\ \E b \in RaceBodies :
          IF UserExists(b.userId[1])
          THEN Begin(slot, "monoPostTask", b, "save", NoMore)
          ELSE Begin(slot, "monoPostTask", b, "done", Answer(Fail(400, "Invalid userId")))
    /\ StoreUnchanged
    /\ UNCHANGED <<app, now, last>>

\* new Task({...}) and await task.save().
TaskSave(slot) ==
    /\ At(slot, "monoPostTask", "save")
    /\ nextTask <= MaxTasks
    /\ LET b == inflight[slot].req
           task == [userId |-> b.userId[1], status |-> OrElse(b.status, "pending")]
       IN /\ tasks' = Insert(tasks, nextTask, task)
          /\ nextTask' = nextTask + 1
          /\ Goto(slot, "populate", [f \in {"id"} |-> nextTask])
    /\ UNCHANGED <<app, now, last, users, projects, nextUser, nextProject>>

\* await task.populate('userId', 'username email') and the 201 response; a
\* user that is gone populates as null.
TaskPopulate(slot) ==
    /\ At(slot, "monoPostTask", "populate")
    /\ LET r == inflight[slot]
       IN Goto(slot, "done",
               Answer([status |-> 201, success |-> TRUE,
                       message |-> "Task created successfully",
                       data |-> [id |-> r.id, userId |->
                                    IF UserExists(r.req.userId[1]) THEN r.req.userId
                                    ELSE None]]))
    /\ StoreUnchanged
    /\ UNCHANGED <<app, now, last>>

\* app.post('/api/projects') up to and including await User.findById(userId).
ProjectFindUser(slot) ==
    /\ Free(slot)
    /\ nextProject <= MaxProjects
    /\ \E b \in RaceProjectBodies :
          IF UserExists(b.userId[1])
          THEN Begin(slot, "monoPostProject", b, "save", NoMore)
          ELSE Begin(slot, "monoPostProject", b, "done", Answer(Fail(400, "Invalid userId")))
    /\ StoreUnchanged
    /\ UNCHANGED <<app, now, last>>

\* new Project({...}) and await project.save().
ProjectSave(slot) ==
    /\ At(slot, "monoPostProject", "save")
    /\ nextProject <= MaxProjects
    /\ LET b == inflight[slot].req
           project == [userId |-> b.userId[1], status |-> "active"]
       IN /\ projects' = Insert(projects, nextProject, project)
          /\ nextProject' = nextProject + 1
          /\ Goto(slot, "populate", [f \in {"id"} |-> nextProject])
    /\ UNCHANGED <<app, now, last, users, tasks, nextUser, nextTask>>

\* await project.populate('userId', 'username email') and the 201 response.
ProjectPopulate(slot) ==
    /\ At(slot, "monoPostProject", "populate")
    /\ LET r == inflight[slot]
       IN Goto(slot, "done",
               Answer([status |-> 201, success |-> TRUE,
                       message |-> "Project created successfully",
                       data |-> [id |-> r.id, userId |->
                                    IF UserExists(r.req.userId[1]) THEN r.req.userId
                                    ELSE None]]))
    /\ StoreUnchanged
    /\ UNCHANGED <<app, now, last>>

\* app.delete('/api/users/:id'): await User.findByIdAndDelete(req.params.id).
UserFindAndDelete(slot) ==
    /\ Free(slot)
    /\ \E id \in 1..MaxUsers :
          IF UserExists(id)
          THEN /\ users' = Remove(users, {id})
               /\ Begin(slot, "deleteUser", [id |-> id], "tasks", NoMore)
          ELSE /\ users' = users
               /\ Begin(slot, "deleteUser", [id |-> id], "done",
                        Answer(Fail(404, "User not found")))
    /\ UNCHANGED <<app, now, last, tasks, projects, nextUser, nextTask, nextProject>>

\* await Task.deleteMany({ userId: req.params.id })
UserDeleteTasks(slot) ==
    /\ At(slot, "deleteUser", "tasks")
    /\ tasks' = Remove(tasks, OwnedBy(tasks, inflight[slot].req.id))
    /\ Goto(slot, "projects", NoMore)
    /\ UNCHANGED <<app, now, last, users, projects, nextUser, nextTask, nextProject>>

\* await Project.deleteMany({ userId: req.params.id }) and the response.
UserDeleteProjects(slot) ==
    /\ At(slot, "deleteUser", "projects")
    /\ projects' = Remove(projects, OwnedBy(projects, inflight[slot].req.id))
    /\ Goto(slot, "done",
            Answer([status |-> 200, success |-> TRUE,
                    message |-> "User and associated data deleted successfully"]))
    /\ UNCHANGED <<app, now, last, users, tasks, nextUser, nextTask, nextProject>>

\* app.get('/api/tasks'): await Task.find(query)...; the populate of the
\* result is the next store call.
ListFind(slot) ==
    /\ Free(slot)
    /\ \E q \in RaceQueries :
          LET query == [status |-> NoCond, userId |-> EqIfGiven(q.userId)]
          IN Begin(slot, "monoList", q, "populate",
                   [f \in {"found"} |-> ByCreatedAt(MonoMatching(query), None)])
    /\ StoreUnchanged
    /\ UNCHANGED <<app, now, last>>

\* .populate('userId', 'username email') of the tasks found.
ListPopulate(slot) ==
    /\ At(slot, "monoList", "populate")
    /\ LET found == inflight[slot].found
       IN Goto(slot, "count",
               [f \in {"data"} |->
                   [i \in 1..Len(found) |->
                       [id |-> found[i],
                        userId |-> IF found[i] \in DOMAIN tasks
                                      /\ UserExists(tasks[found[i]].userId)
                                   THEN Some(tasks[found[i]].userId) ELSE None]]])
    /\ StoreUnchanged
    /\ UNCHANGED <<app, now, last>>

\* await Task.countDocuments(query) and the response.
ListCount(slot) ==
    /\ At(slot, "monoList", "count")
    /\ LET r == inflight[slot]
           query == [status |-> NoCond, userId |-> EqIfGiven(r.req.userId)]
           total == Cardinality(MonoMatching(query))
       IN Goto(slot, "done",
               Answer([status |-> 200, success |-> TRUE, data |-> r.data,
                       pagination |-> [page |-> PageDefault, limit |-> LimitDefault,
                                       total |-> total,
                                       pages |-> TotalPages(total, LimitDefault)]]))
    /\ StoreUnchanged
    /\ UNCHANGED <<app, now, last>>

\* The response is sent; the request is over.
Respond(slot) ==
    /\ slot \in DOMAIN inflight
    /\ inflight[slot].pc = "done"
    /\ inflight' = Remove(inflight, {slot})
    /\ StoreUnchanged
    /\ UNCHANGED <<app, now, last>>

\* The single-file server with the users amy and bob stored.
RaceInit ==
    /\ app = "mono"
    /\ now = 0
    /\ users = [i \in 1..MaxUsers |->
                  IF i = 1 THEN [username |-> "amy", email |-> "a@x.io"]
                  ELSE [username |-> "bob", email |-> "b@x.io"]]
    /\ nextUser = MaxUsers + 1
    /\ tasks = Empty
    /\ projects = Empty
    /\ nextTask = 1
    /\ nextProject = 1
    /\ last = Idle
    /\ inflight = Empty

\* The steps of the single-file server for the request in slot.
MonoSteps(slot) ==
    \/ TaskFindUser(slot)
    \/ TaskSave(slot)
    \/ TaskPopulate(slot)
    \/ ProjectFindUser(slot)
    \/ ProjectSave(slot)
    \/ ProjectPopulate(slot)
    \/ UserFindAndDelete(slot)
    \/ UserDeleteTasks(slot)
    \/ UserDeleteProjects(slot)
    \/ ListFind(slot)
    \/ ListPopulate(slot)
    \/ ListCount(slot)
    \/ Respond(slot)

RaceNext == \E slot \in Slots : MonoSteps(slot)

RaceSpec == RaceInit /\ [][RaceNext]_vars

\* ------------------------------------ routes/tasks.js, one await per step

\* A request of the router server: the route, and its params, body or query.
PostReq(b) == [op |-> "post", body |-> b]
PutReq(id, b) == [op |-> "put", id |-> id, body |-> b]
PatchReq(id, status) == [op |-> "patch", id |-> id, status |-> status]
ByIdReq(op, id) == [op |-> op, id |-> id]
ListReq(q) == [op |-> "list", query |-> q]

\* The validation chain of the route (GET /:id, DELETE /:id and PATCH have
\* none, see PatchStatus).
RouteRules(r) ==
    CASE r.op = "post" -> ValidateCreate(r.body)
      [] r.op = "put" -> ValidateUpdate(r.id, r.body)
      [] r.op = "list" -> ValidateQuery(r.query)
      [] OTHER -> <<>>

\* The store call a handler awaits first.
FirstAwait(r) ==
    CASE r.op = "post" -> IF r.body.assignedTo # None THEN "lookup" ELSE "save"
      [] r.op = "list" -> "find"
      [] OTHER -> "findById"

\* Creates that have arrived and not yet saved.
PendingPosts ==
    {s \in DOMAIN inflight : inflight[s].op = "post" /\ inflight[s].pc \in {"lookup", "save"}}

\* A request arrives: the chains and handleValidationErrors run, then the
\* handler up to its first await; pc names the store call that is awaited.
Arrive(slot, requests) ==
    /\ app = "router"
    /\ slot \notin DOMAIN inflight
    /\ \E r \in requests :
          /\ r.op = "post" => nextTask + Cardinality(PendingPosts) <= MaxTasks
          /\ IF RouteRules(r) # <<>>
             THEN Begin(slot, r.op, r, "done", Answer(ValidationFailed(RouteRules(r))))
             ELSE Begin(slot, r.op, r, FirstAwait(r), NoMore)
    /\ StoreUnchanged
    /\ UNCHANGED <<app, now, last>>

Awaits(slot, pc) == app = "router" /\ slot \in DOMAIN inflight /\ inflight[slot].pc = pc

\* Mutant: the not-found branch answers 404 and does not return.
TaskFindByIdNoReturn(slot) ==
    /\ Awaits(slot, "findById")
    /\ LET r == inflight[slot]
           found == r.req.id \in DOMAIN tasks
           more == IF found THEN NoMore ELSE Answer(Fail(404, "Task not found"))
       IN CASE r.op = "get" ->
                 Goto(slot, "done",
                      Answer([status |-> 200, success |-> TRUE,
                              data |-> IF found THEN Some(TaskJSON(r.req.id, tasks[r.req.id]))
                                       ELSE None]))
            [] r.op = "put" ->
                 Goto(slot, IF r.req.body.assignedTo # None THEN "lookup" ELSE "update", more)
            [] r.op = "patch" -> Goto(slot, "update", more)
            [] r.op = "delete" -> Goto(slot, "remove", more)
    /\ StoreUnchanged
    /\ UNCHANGED <<app, now, last>>

\* await Task.findById(req.params.id) of GET /:id, PUT /:id, PATCH
\* /:id/status and DELETE /:id, the 404 when there is no such Task, and the
\* handler up to its next await.
TaskFindById(slot) ==
    /\ Awaits(slot, "findById")
    /\ LET r == inflight[slot]
       IN IF r.req.id \notin DOMAIN tasks
          THEN Goto(slot, "done", Answer(Fail(404, "Task not found")))
          ELSE CASE r.op = "get" ->
                      Goto(slot, "done",
                           Answer([status |-> 200, success |-> TRUE,
                                   data |-> Some(TaskJSON(r.req.id, tasks[r.req.id]))]))
                 [] r.op = "put" ->
                      Goto(slot, IF r.req.body.assignedTo # None THEN "lookup" ELSE "update",
                           NoMore)
                 [] r.op = "patch" -> Goto(slot, "update", NoMore)
                 [] r.op = "delete" -> Goto(slot, "remove", NoMore)
    /\ StoreUnchanged
    /\ UNCHANGED <<app, now, last>>

\* await User.findById(assignedTo) of POST / and PUT /:id.
UserFindById(slot) ==
    /\ Awaits(slot, "lookup")
    /\ LET r == inflight[slot]
       IN IF ~UserExists(r.req.body.assignedTo[1])
          THEN Goto(slot, "done", Answer(Fail(400, "Assigned user not found")))
          ELSE Goto(slot, IF r.op = "post" THEN "save" ELSE "update", NoMore)
    /\ StoreUnchanged
    /\ UNCHANGED <<app, now, last>>

\* new Task({...}) and await newTask.save(); a schema error is caught.
newTaskSave(slot) ==
    /\ Awaits(slot, "save")
    /\ LET b == Sanitize(inflight[slot].req.body)
           saved == PreSave(NewTask(b), TRUE)
       IN IF ~SchemaValid(b, TRUE)
          THEN /\ Goto(slot, "done", Answer(Fail(500, CatchMessage("post"))))
               /\ UNCHANGED <<tasks, nextTask>>
          ELSE /\ tasks' = Insert(tasks, nextTask, saved)
               /\ nextTask' = nextTask + 1
               /\ Goto(slot, "populate", [f \in {"id"} |-> nextTask])
    /\ UNCHANGED <<app, now, last, users, projects, nextUser, nextProject>>

\* await savedTask.populate(...) twice and the 201 response.
savedTaskPopulate(slot) ==
    /\ Awaits(slot, "populate")
    /\ LET r == inflight[slot]
           saved == PreSave(NewTask(Sanitize(r.req.body)), TRUE)
       IN Goto(slot, "done",
               Answer([status |-> 201, success |-> TRUE, data |-> Some(TaskJSON(r.id, saved)),
                       message |-> "Task created successfully"]))
    /\ StoreUnchanged
    /\ UNCHANGED <<app, now, last>>

\* The update document of PUT /:id and of PATCH /:id/status.
UpdateSet(r) ==
    IF r.op = "put"
    THEN LET b == Sanitize(r.req.body)
         IN [title |-> b.title, status |-> b.status, priority |-> b.priority,
             category |-> b.category, dueDate |-> b.dueDate, assignedTo |-> b.assignedTo,
             completedAt |-> None]
    ELSE [title |-> None, status |-> r.req.status, priority |-> None, category |-> None,
          dueDate |-> None, assignedTo |-> None,
          completedAt |-> IF r.req.status = Some("completed") THEN Some(now) ELSE None]

\* await Task.findByIdAndUpdate(id, {...}, {new: true, runValidators: true})
\* and res.json({success: true, data: updatedTask, ...}): the validators run
\* first; the call resolves to null when no Task has the id, and the handler
\* sends what it got.
TaskFindByIdAndUpdate(slot) ==
    /\ Awaits(slot, "update")
    /\ LET r == inflight[slot]
           id == r.req.id
           message == IF r.op = "put" THEN "Task updated successfully"
                      ELSE "Task status updated successfully"
       IN IF ~SchemaValid(UpdateSet(r), FALSE)
          THEN /\ Goto(slot, "done", Answer(Fail(500, CatchMessage(r.op))))
               /\ tasks' = tasks
          ELSE IF id \notin DOMAIN tasks
          THEN /\ Goto(slot, "done",
                       Answer([status |-> 200, success |-> TRUE, data |-> None,
                               message |-> message]))
               /\ tasks' = tasks
          ELSE LET updated == ApplySet(tasks[id], UpdateSet(r))
               IN /\ tasks' = Insert(tasks, id, updated)
                  /\ Goto(slot, "done",
                          Answer([status |-> 200, success |-> TRUE,
                                  data |-> Some(TaskJSON(id, updated)), message |-> message]))
    /\ UNCHANGED <<app, now, last, users, projects, nextUser, nextTask, nextProject>>

\* await Task.findByIdAndDelete(req.params.id) and the 200 response; what
\* the call resolves to is not looked at.
TaskFindByIdAndDelete(slot) ==
    /\ Awaits(slot, "remove")
    /\ tasks' = Remove(tasks, {inflight[slot].req.id})
    /\ Goto(slot, "done",
            Answer([status |-> 200, success |-> TRUE, message |-> "Task deleted successfully"]))
    /\ UNCHANGED <<app, now, last, users, projects, nextUser, nextTask, nextProject>>

\* GET /: await Task.find(query)...skip(skip).limit(limit).
TaskFind(slot) ==
    /\ Awaits(slot, "find")
    /\ Goto(slot, "count", [f \in {"data"} |-> ListHandler(inflight[slot].req.query).res.data])
    /\ StoreUnchanged
    /\ UNCHANGED <<app, now, last>>

\* GET /: await Task.countDocuments(query) and the response, with the data
\* read by the find before.
TaskCountDocuments(slot) ==
    /\ Awaits(slot, "count")
    /\ LET r == inflight[slot]
       IN Goto(slot, "done",
               Answer([ListHandler(r.req.query).res EXCEPT !.data = r.data]))
    /\ StoreUnchanged
    /\ UNCHANGED <<app, now, last>>

\* The awaited store call of the request in slot rejects: the catch block of
\* the route (the error handler behind asyncHandler on the single-file
\* server) answers.
AwaitRejects(slot) ==
    /\ slot \in DOMAIN inflight
    /\ inflight[slot].pc # "done"
    /\ \E err \in StoreErrors :
          Goto(slot, "done",
               [f \in {"res", "err"} |->
                   IF f = "res" THEN OnError(inflight[slot].op, err) ELSE err])
    /\ StoreUnchanged
    /\ UNCHANGED <<app, now, last>>

\* The steps of the router server for the request in slot.
RouterSteps(slot, requests) ==
    \/ Arrive(slot, requests)
    \/ TaskFindById(slot)
    \/ UserFindById(slot)
    \/ newTaskSave(slot)
    \/ savedTaskPopulate(slot)
    \/ TaskFindByIdAndUpdate(slot)
    \/ TaskFindByIdAndDelete(slot)
    \/ TaskFind(slot)
    \/ TaskCountDocuments(slot)
    \/ Respond(slot)

\* Concurrent requests on the router server: creates, updates, deletes and
\* lists of the same Tasks.
RouterRaceRequests ==
    {PostReq(Body(Some("Ab"), None, None, None, None, None)),
     PostReq(Body(Some("Ab"), None, None, None, None, Some(1))),
     ListReq(Query(None, None, None, None, None, None, None))}
    \cup {PutReq(id, Body(None, None, Some("high"), None, None, None)) : id \in 1..MaxTasks}
    \cup {PatchReq(id, Some("completed")) : id \in 1..MaxTasks}
    \cup {ByIdReq("delete", id) : id \in 1..MaxTasks}

RouterRaceNext == \E slot \in Slots : RouterSteps(slot, RouterRaceRequests)

RouterRaceSpec == UpdateInit /\ [][RouterRaceNext]_vars

\* One request at a time on either server, every path of every handler, and
\* any awaited store call may reject.
ResponseRequests ==
    {PostReq(Body(t, None, None, None, None, None)) : t \in {None, Some(" "), Some("Ab")}}
    \cup {PostReq(Body(Some("Ab"), None, None, None, None, Some(a))) : a \in {1, 2}}
    \cup {PutReq(id, b) :
            id \in 0..MaxTasks,
            b \in {Body(None, Some("completed"), None, None, None, None),
                   Body(Some(" "), None, None, None, None, None),
                   Body(None, None, None, None, None, Some(1)),
                   Body(None, None, None, None, None, Some(2))}}
    \cup {PatchReq(id, s) : id \in 1..MaxTasks, s \in {Some("completed"), Some("bogus")}}
    \cup {ByIdReq(op, id) : op \in {"get", "delete"}, id \in 1..MaxTasks}
    \cup {ListReq(Query(p, None, None, None, None, None, None)) : p \in {None, Some(0)}}

\* Either server, started with the user amy stored.
ResponseInit ==
    /\ app \in {"router", "mono"}
    /\ now = 0
    /\ users = [i \in {1} |-> [username |-> "amy", email |-> "a@x.io"]]
    /\ nextUser = 2
    /\ tasks = Empty
    /\ projects = Empty
    /\ nextTask = 1
    /\ nextProject = 1
    /\ last = Idle
    /\ inflight = Empty

\* The one request in flight.
ResponseSlots == {1}

ResponseNext ==
    \E slot \in ResponseSlots :
        \/ RouterSteps(slot, ResponseRequests)
        \/ MonoSteps(slot)
        \/ AwaitRejects(slot)

ResponseSpec == ResponseInit /\ [][ResponseNext]_vars

\* Every awaited store call settles and the handler resumes.
LiveSpec == ResponseSpec /\ WF_vars(ResponseNext)

\* =================================================================== claims

Range(s) == {s[i] : i \in 1..Len(s)}

IsOk(op) == last.op = op /\ last.res.status = 200

\* ------------------------------------------------------------------- C1
\* C1: for every stored Task, after any sequence of create, full update,
\* status patch and markAsCompleted, completedAt is non-null if and only if
\* status is "completed".
C1_CompletedAtIffCompleted ==
    app = "router" =>
        \A id \in DOMAIN tasks :
            (tasks[id].completedAt # None) <=> (tasks[id].status = "completed")

\* ------------------------------------------------------------------- C2
\* The create request in last' names a well-formed user id that designates
\* no stored User, and is otherwise accepted by the handler's own checks.
C2_RouterDangling(req) ==
    /\ ValidateCreate(req) = <<>>
    /\ req.assignedTo # None
    /\ req.assignedTo[1] \notin DOMAIN users

C2_MonoDangling(req) ==
    /\ ~Falsy(req.title)
    /\ req.userId # None
    /\ req.userId[1] >= 1
    /\ req.userId[1] \notin DOMAIN users

\* C2: creating a Task whose assignedTo (router) or userId (single-file
\* server) is a well-formed id of no existing User answers 400 with the
\* reference error, makes no write, and leaves the stored Tasks as they were.
C2_DanglingReferenceRejected ==
    [][/\ (last'.op = "post" /\ C2_RouterDangling(last'.req)) =>
            /\ last'.res.status = 400
            /\ last'.res.success = FALSE
            /\ last'.res.message = "Assigned user not found"
            /\ Writes(last'.calls) = <<>>
            /\ tasks' = tasks
       /\ (last'.op = "monoPostTask" /\ C2_MonoDangling(last'.req)) =>
            /\ last'.res.status = 400
            /\ last'.res.success = FALSE
            /\ last'.res.message = "Invalid userId"
            /\ Writes(last'.calls) = <<>>
            /\ tasks' = tasks]_vars

\* A create naming user 2, who does not exist, was refused while a Task is
\* stored.
C2_Witness ==
    /\ last.op = "post"
    /\ last.req.assignedTo = Some(2)
    /\ last.res.status = 400
    /\ last.res.message = "Assigned user not found"
    /\ DOMAIN tasks # {}

\* ------------------------------------------------------------------- C3
\* The users that were created and are no longer stored.
DeletedUsers == (1..(nextUser - 1)) \ DOMAIN users

\* C3: a successful delete of a User removes the User and every Task and
\* Project whose owner is that user; a later list of that user's tasks
\* yields no item and a total of 0.
C3_CascadeDelete ==
    app = "mono" =>
        /\ \A id \in DeletedUsers : OwnedBy(tasks, id) = {} /\ OwnedBy(projects, id) = {}
        /\ IsOk("deleteUser") => last.req.id \in DeletedUsers
        /\ (/\ IsOk("monoList")
            /\ last.req.userId # None
            /\ last.req.userId[1] \in DeletedUsers) =>
                /\ last.res.data = <<>>
                /\ last.res.pagination.total = 0

\* The only user ever created owned two Tasks and a Project, was deleted,
\* nothing of theirs is left, and their tasks were listed afterwards.
C3_Witness ==
    /\ app = "mono"
    /\ nextUser = 2 /\ users = Empty
    /\ nextTask = 3 /\ tasks = Empty
    /\ nextProject = 2 /\ projects = Empty
    /\ IsOk("monoList")
    /\ last.req.userId = Some(1)

\* ------------------------------------------------------------------- C4
\* The stored Tasks with dueDate < now and status # completed.
OverdueTasks ==
    {i \in DOMAIN tasks :
        /\ tasks[i].dueDate # None
        /\ tasks[i].dueDate[1] < now
        /\ tasks[i].status # "completed"}

\* C4 as claimed: an overdue=true list (with the default page and limit, so
\* that one page holds every match) returns exactly the overdue Tasks,
\* whatever other filters the request carries.
C4_OverdueIgnoresOtherFilters ==
    (/\ IsOk("list")
     /\ last.req.overdue = Some("true")
     /\ last.req.page = None /\ last.req.limit = None) =>
        /\ Range(last.res.data) = OverdueTasks
        /\ last.res.pagination.totalTasks = Cardinality(OverdueTasks)

\* The overdue Tasks that also satisfy the other filters of request q; an
\* explicit status filter is not among them.
C4_Expected(q) ==
    {i \in OverdueTasks :
        /\ q.priority # None => tasks[i].priority = q.priority[1]
        /\ q.category # None => tasks[i].category = q.category[1]
        /\ q.assignedTo # None => tasks[i].assignedTo = q.assignedTo
        /\ q.search \notin {None, Some("")} => RegexI(tasks[i].title, q.search[1])}

\* C4 amended: an overdue=true list matches exactly the Tasks with
\* dueDate < now and status # completed that also satisfy the priority,
\* category, assignedTo and search filters of the request; only an explicit
\* status filter is ignored.  totalTasks counts them and data is a page of
\* them.
C4_OverdueWithOtherFilters ==
    (IsOk("list") /\ last.req.overdue = Some("true")) =>
        LET q == last.req
            limit == OrElse(q.limit, LimitDefault)
        IN /\ last.res.pagination.totalTasks = Cardinality(C4_Expected(q))
           /\ Range(last.res.data) \subseteq C4_Expected(q)
           /\ (q.page = None /\ limit >= Cardinality(C4_Expected(q))) =>
                  Range(last.res.data) = C4_Expected(q)

\* An overdue=true list with priority=high left out an overdue Task of
\* another priority and returned an overdue Task of high priority.
C4_Witness ==
    /\ IsOk("list")
    /\ last.req.overdue = Some("true")
    /\ last.req.priority = Some("high")
    /\ last.res.data # <<>>
    /\ \E i \in OverdueTasks : tasks[i].priority # "high"

\* ------------------------------------------------------------------- C5
\* C5: with overdue=true and an explicit status, the status predicate of the
\* queries sent to the store is status # completed, whatever the status
\* value; no Task the response returns is completed.
C5_OverdueReplacesStatus ==
    (IsOk("list") /\ last.req.overdue = Some("true") /\ last.req.status # None) =>
        /\ \A i \in 1..Len(last.calls) : last.calls[i].query.status = Ne("completed")
        /\ \A id \in Range(last.res.data) : tasks[id].status # "completed"

\* overdue=true with status=completed returned a Task, which is not
\* completed, while a completed Task with a past due date is stored.
C5_Witness ==
    /\ IsOk("list")
    /\ last.req.overdue = Some("true")
    /\ last.req.status = Some("completed")
    /\ last.res.data # <<>>
    /\ \E i \in DOMAIN tasks :
          /\ tasks[i].status = "completed"
          /\ tasks[i].dueDate # None
          /\ tasks[i].dueDate[1] < now

\* ------------------------------------------------------------------- C6
\* totalPages is the ceiling of total / limit.
C6_IsCeil(totalPages, total, limit) ==
    /\ totalPages * limit >= total
    /\ (totalPages - 1) * limit < total

\* C6: an accepted list request with page >= 1 and limit in 1..100 queries
\* the store with skip = (page - 1) * limit, reports the page it was asked
\* for, and totalPages = ceil(totalItems / limit); so it is for the list
\* of the single-file server (page, pages, total).
C6_Pagination ==
    /\ IsOk("list") =>
          LET page == OrElse(last.req.page, 1)
              limit == OrElse(last.req.limit, 10)
              p == last.res.pagination
          IN /\ page >= 1 /\ limit >= 1 /\ limit <= 100
             /\ last.calls[1].skip = (page - 1) * limit
             /\ last.calls[1].limit = limit
             /\ p.currentPage = page
             /\ C6_IsCeil(p.totalPages, p.totalTasks, limit)
             /\ p.totalTasks = Cardinality(Matching(last.calls[1].query))
    /\ IsOk("monoList") =>
          LET page == OrElse(last.req.page, 1)
              limit == OrElse(last.req.limit, 10)
              p == last.res.pagination
          IN /\ last.calls[1].skip = (page - 1) * limit
             /\ last.calls[1].limit = limit
             /\ p.page = page
             /\ C6_IsCeil(p.pages, p.total, limit)

\* Page 2 of two matching Tasks, one Task a page: skip 1, two pages.
C6_Witness ==
    /\ IsOk("list")
    /\ last.req.page = Some(2)
    /\ last.req.limit = Some(1)
    /\ last.calls[1].skip = 1
    /\ last.res.pagination.totalTasks = 2
    /\ last.res.pagination.totalPages = 2
    /\ Len(last.res.data) = 1

\* ------------------------------------------------------------------- C7
\* C7: creating a User whose email is the email of a stored User (with a
\* username that is free) answers 409 with a message that names email, and
\* the stored User stays the only one with that email.
C7_DuplicateEmailIs409 ==
    (/\ last.op = "postUser"
     /\ last.res.status # 201
     /\ ~Falsy(last.req.username) /\ ~Falsy(last.req.email)
     /\ UserSchemaErrors(last.req) = <<>>
     /\ DuplicateKeys(last.req) = {"email"}) =>
        /\ last.res.status = 409
        /\ last.res.message = "email already exists"
        /\ Cardinality({u \in DOMAIN users : users[u].email = last.req.email[1]}) = 1

\* ------------------------------------------------------------------- C8
\* C8: a Task created with only a title and priority "high", fetched by the
\* id the create returned, has status "pending", priority "high", category
\* "other" and isOverdue false.
C8_RoundTrip ==
    (/\ last.op = "post"
     /\ last.req = Body(Some("Ab"), None, Some("high"), None, None, None)
     /\ last.res.status = 201) =>
        LET got == GetTask(last.res.data.id).res
        IN /\ got.status = 200
           /\ got.data.status = "pending"
           /\ got.data.priority = "high"
           /\ got.data.category = "other"
           /\ got.data.isOverdue = Some(FALSE)

\* ------------------------------------------------------------------- C9
\* The validation errors of the create, update or list request r.
C9_Errors(op, r) ==
    CASE op = "post" -> ValidateCreate(r)
      [] op = "put" -> ValidateUpdate(r.id, r.body)
      [] op = "list" -> ValidateQuery(r)
      [] OTHER -> <<>>

\* C9: a create, update or list request that fails validation is answered
\* 400 with success false, makes no store call, and leaves the store as it
\* was.
C9_InvalidRequestTouchesNothing ==
    [][C9_Errors(last'.op, last'.req) # <<>> =>
          /\ last'.res.status = 400
          /\ last'.res.success = FALSE
          /\ last'.calls = <<>>
          /\ tasks' = tasks /\ users' = users /\ nextTask' = nextTask]_vars

\* An update of a stored Task with an empty title was refused.
C9_Witness ==
    /\ last.op = "put"
    /\ last.req.id \in DOMAIN tasks
    /\ last.req.body.title = Some("")
    /\ last.res.status = 400
    /\ last.calls = <<>>

\* ------------------------------------------------------------------ C10
\* The fields of request r that break a rule of their chain.
C10_Violating(op, r) ==
    LET b == IF op = "put" THEN r.body ELSE r
    IN {f \in {"status", "priority", "category"} :
            b[f] # None /\ b[f][1] \notin
                (CASE f = "status" -> Statuses [] f = "priority" -> Priorities
                   [] f = "category" -> Categories)}
       \cup (IF b.assignedTo # None /\ b.assignedTo[1] < 1 THEN {"assignedTo"} ELSE {})
       \cup (IF op \in {"post", "put"} /\ (op = "post" \/ b.title # None)
                /\ (b.title \in {None, Some("")} \/ StrLen(b.title[1]) > 100)
             THEN {"title"} ELSE {})
       \cup (IF op \in {"post", "put"} /\ b.dueDate # None
                /\ (b.dueDate[1] < 0 \/ (op = "post" /\ b.dueDate[1] <= now))
             THEN {"dueDate"} ELSE {})
       \cup (IF op = "put" /\ r.id < 1 THEN {"id"} ELSE {})
       \cup (IF op = "list" /\ b.page # None /\ b.page[1] < 1 THEN {"page"} ELSE {})
       \cup (IF op = "list" /\ b.limit # None /\ (b.limit[1] < 1 \/ b.limit[1] > 100)
             THEN {"limit"} ELSE {})
       \cup (IF op = "list" /\ b.sortOrder \notin {None, Some("asc"), Some("desc")}
             THEN {"sortOrder"} ELSE {})

\* The value request r carries for field f.
C10_Value(op, r, f) ==
    IF f = "id" THEN Some(r.id) ELSE IF op = "put" THEN r.body[f] ELSE r[f]

\* C10: the 400 response to a request that breaks the rules of several
\* fields lists an entry {field, message, value} for every one of them.
C10_AllFieldErrorsListed ==
    (last.op \in {"post", "put", "list"} /\ C10_Violating(last.op, last.req) # {}) =>
        /\ last.res.status = 400
        /\ last.res.message = "Validation failed"
        /\ {e.field : e \in Range(last.res.errors)} = C10_Violating(last.op, last.req)
        /\ \A e \in Range(last.res.errors) : e.value = C10_Value(last.op, last.req, e.field)

\* A create without title, with an unknown status and a malformed user id:
\* the response names the three fields.
C10_Witness ==
    /\ last.op = "post"
    /\ last.req.title = None
    /\ last.req.status = Some("bogus")
    /\ last.req.assignedTo = Some(0)
    /\ {e.field : e \in Range(last.res.errors)} = {"title", "status", "assignedTo"}

\* ------------------------------------------------------------------ C11
\* C11: due date > now is enforced on create only: a full update of a stored
\* Task whose body carries a well-formed dueDate not later than now is
\* accepted (200) and stores that dueDate.
C11_PastDueDateAcceptedOnUpdate ==
    (/\ last.op = "put"
     /\ last.req.id \in DOMAIN tasks
     /\ ValidateUpdate(last.req.id, last.req.body) = <<>>
     /\ last.req.body.dueDate # None
     /\ last.req.body.dueDate[1] <= now) =>
        /\ last.res.status = 200
        /\ tasks[last.req.id].dueDate = last.req.body.dueDate

\* ------------------------------------------------------------------ C12
\* The request in last' names a well-formed id of no stored record, and is
\* one the validation middleware lets through.
C12_Missing ==
    \/ /\ last'.op \in {"get", "patch", "delete"}
       /\ last'.req.id >= 1
       /\ last'.req.id \notin DOMAIN tasks
    \/ /\ last'.op = "put"
       /\ ValidateUpdate(last'.req.id, last'.req.body) = <<>>
       /\ last'.req.id \notin DOMAIN tasks
    \/ /\ last'.op = "deleteUser"
       /\ last'.req.id >= 1
       /\ last'.req.id \notin DOMAIN users

C13_FiltersValid(op, q) ==
    IF op = "list"
    THEN /\ q.status # None => q.status[1] \in Statuses
         /\ q.priority # None => q.priority[1] \in Priorities
         /\ q.category # None => q.category[1] \in Categories
         /\ q.assignedTo # None => q.assignedTo[1] >= 1
    ELSE /\ q.status # None => q.status[1] \in MonoStatuses
         /\ q.userId # None => q.userId[1] >= 1

\* The stored Tasks that equal every filter value request q supplies.
C13_Equal(op, q) ==
    IF op = "list"
    THEN {i \in DOMAIN tasks :
            /\ q.status # None => tasks[i].status = q.status[1]
            /\ q.priority # None => tasks[i].priority = q.priority[1]
            /\ q.category # None => tasks[i].category = q.category[1]
            /\ q.assignedTo # None => tasks[i].assignedTo = q.assignedTo
            /\ q.search \notin {None, Some("")} => RegexI(tasks[i].title, q.search[1])}
    ELSE {i \in DOMAIN tasks :
            /\ q.status # None => tasks[i].status = q.status[1]
            /\ q.userId # None => tasks[i].userId = q.userId[1]}

\* C13: a list request without the overdue flag (default page and limit,
\* which the validation accepts) returns exactly the stored Tasks that equal
\* every supplied filter value, and a filter value outside the enum or the
\* id shape is answered 400.
C13_EqualityFilters ==
    (/\ last.op \in {"list", "monoList"}
     /\ last.req.page = None /\ last.req.limit = None
     /\ last.op = "list" => (last.req.overdue = None /\ last.req.sortOrder = None)) =>
        IF C13_FiltersValid(last.op, last.req)
        THEN /\ last.res.status = 200
             /\ Range(last.res.data) = C13_Equal(last.op, last.req)
        ELSE last.res.status = 400

\* ------------------------------------------------------------------ C15
\* C15: a successful task list response carries a count field equal to the
\* number of tasks in its data array.
C15_CountField ==
    (IsOk("list") \/ IsOk("monoList")) =>
        /\ "count" \in DOMAIN last.res
        /\ last.res.count = Len(last.res.data)

\* ------------------------------------------------------------------ C16
\* C16: after a successful status patch with status s, the Task's
\* completedAt is set if s is "completed" and cleared otherwise.
C16_PatchSetsOrClearsCompletedAt ==
    (IsOk("patch") /\ last.req.status # None) =>
        (tasks[last.req.id].completedAt # None) <=> (last.req.status = Some("completed"))

\* ------------------------------------------------------------------ C17
\* C17: a status patch of a stored Task with a status outside the enum is
\* answered 400 as a validation error and leaves the Task as it was.
C17_BadStatusPatchIs400 ==
    [][(/\ last'.op = "patch"
        /\ last'.req.id \in DOMAIN tasks
        /\ last'.req.status # None
        /\ last'.req.status[1] \notin Statuses) =>
          /\ last'.res.status = 400
          /\ tasks' = tasks]_vars

\* ------------------------------------------------------------------ C18
\* C18: a full update of a stored Task whose assignedTo is a well-formed id
\* of no stored User answers 400 "Assigned user not found" and leaves the
\* stored Task as it was.
C18_UpdateDanglingAssignee ==
    [][(/\ last'.op = "put"
        /\ last'.req.id \in DOMAIN tasks
        /\ ValidateUpdate(last'.req.id, last'.req.body) = <<>>
        /\ last'.req.body.assignedTo # None
        /\ last'.req.body.assignedTo[1] \notin DOMAIN users) =>
          /\ last'.res.status = 400
          /\ last'.res.success = FALSE
          /\ last'.res.message = "Assigned user not found"
          /\ Writes(last'.calls) = <<>>
          /\ tasks' = tasks]_vars

\* An update of stored Task 1 to status completed, assigned to user 2 who
\* does not exist, was refused; the Task is still not completed.
C18_Witness ==
    /\ last.op = "put"
    /\ last.req.id = 1
    /\ last.req.body.assignedTo = Some(2)
    /\ last.req.body.status = Some("completed")
    /\ last.res.status = 400
    /\ last.res.message = "Assigned user not found"
    /\ 1 \in DOMAIN tasks
    /\ tasks[1].status # "completed"

\* ------------------------------------------------------------------ C14
\* The one message a route answers a failure with.
C14_GenericMessage(op) ==
    IF op \in {"postUser", "deleteUser", "monoPostTask", "monoPostProject", "monoList"}
    THEN "Internal Server Error"
    ELSE CatchMessage(op)

C19_ReferenceExistsAtWrite ==
    [][/\ \A i \in DOMAIN tasks' \ DOMAIN tasks : tasks'[i].userId \in DOMAIN users
       /\ \A i \in DOMAIN projects' \ DOMAIN projects :
             projects'[i].userId \in DOMAIN users]_vars

\* ------------------------------------------------------------------ C20
\* C20: the cascade delete of a User is one logical operation: no request
\* running at the same time reads from the store a Task whose owner is no
\* longer stored.
C20_CascadeIsAtomic ==
    [][\A slot \in Slots :
          (/\ slot \notin DOMAIN inflight
           /\ slot \in DOMAIN inflight'
           /\ inflight'[slot].op = "monoList") =>
              \A i \in Range(inflight'[slot].found) : tasks[i].userId \in DOMAIN users]_vars

\* ------------------------------------------------------------------ C21
\* C21: when a cascade step of the delete of a stored User throws (the Task
\* delete or the Project delete), the User stays removed and the request is
\* answered with an error, not with success.
C21_UserDeleteNotRolledBack ==
    [][(/\ last'.op = "deleteUser"
        /\ "err" \in DOMAIN last'
        /\ Len(last'.calls) >= 2
        /\ last'.req.id \in DOMAIN users) =>
          /\ last'.req.id \notin DOMAIN users'
          /\ last'.res.success = FALSE
          /\ last'.res.status >= 400]_vars

\* The Project delete of the cascade threw: the user and their Task are
\* gone, their Project is still stored, and the answer is 500.
C21_Witness ==
    /\ last.op = "deleteUser"
    /\ "err" \in DOMAIN last
    /\ Len(last.calls) = 3
    /\ last.res.status = 500
    /\ last.req.id \notin DOMAIN users
    /\ nextTask > 1
    /\ OwnedBy(tasks, last.req.id) = {}
    /\ OwnedBy(projects, last.req.id) # {}

\* ------------------------------------------------------------------ C22
\* C22: every list query that reaches the store has a limit in 1..100 and a
\* skip >= 0; a page that is no positive integer or a limit outside 1..100
\* is answered 400, and a request without them uses page 1 and limit 10.
C22_ListQueryBounded ==
    last.op \in {"list", "monoList"} =>
        LET q == last.req
            valid == /\ q.page # None => q.page[1] >= 1
                     /\ q.limit # None => (q.limit[1] >= 1 /\ q.limit[1] <= 100)
        IN /\ \A i \in 1..Len(last.calls) :
                 last.calls[i].fn = "Task.find" =>
                    /\ last.calls[i].limit >= 1 /\ last.calls[i].limit <= 100
                    /\ last.calls[i].skip >= 0
                    /\ q.page = None => last.calls[i].skip = 0
                    /\ q.limit = None => last.calls[i].limit = 10
           /\ ~valid => last.res.status = 400

\* ------------------------------------------------------------------ C29
\* C29: a create or update body that passes the request validation is
\* accepted by the schema validators: such a request is never answered 500.
C29_ValidatedBodyPassesSchema ==
    /\ (last.op = "post" /\ ValidateCreate(last.req) = <<>>) => last.res.status # 500
    /\ (last.op = "put" /\ ValidateUpdate(last.req.id, last.req.body) = <<>>) =>
          last.res.status # 500

\* ------------------------------------------------------------------ C30
\* C30: every field that the create rules accept and the request carries is
\* stored on the created Task with the submitted value.
C30_Stored(t, b, f) ==
    /\ f \in DOMAIN t
    /\ IF f \in {"dueDate", "assignedTo", "estimatedHours"} THEN t[f] = b[f]
       ELSE IF f = "title" THEN t[f] = Trim(b[f][1])
       ELSE t[f] = b[f][1]

C30_AcceptedFieldsStored ==
    (last.op = "post" /\ last.res.status = 201) =>
        \A f \in DOMAIN last.req :
            last.req[f] # None => C30_Stored(tasks[last.res.data.id], last.req, f)

\* ------------------------------------------------------------------ C23
\* C23: the statistics summary reports a count for every status (pending,
\* in-progress, completed, cancelled), every priority and every category,
\* and an overdue count equal to the number of Tasks with dueDate < now and
\* status # completed.
C23_Reported(data, bucket) ==
    \/ bucket \in DOMAIN data
    \/ bucket = "in-progress" /\ "inProgress" \in DOMAIN data

C23_SummaryHasEveryBucket ==
    last.op = "stats" =>
        /\ last.res.status = 200
        /\ \A bucket \in Statuses \cup Priorities \cup Categories :
              C23_Reported(last.res.data, bucket)
        /\ last.res.data.overdue = Cardinality(OverdueTasks)

\* ------------------------------------------------------------------ C28
\* C28: in every store state the overdue count of the statistics summary,
\* the total of an overdue=true list, the number of Tasks getOverdueTasks
\* returns and the number of Tasks whose isOverdue is true are equal.
C28_OverdueDefinitionsAgree ==
    LET virtual == Cardinality({i \in DOMAIN tasks : isOverdue(tasks[i]) = Some(TRUE)})
        list == ListTasks(Query(None, None, None, None, None, Some("true"), None))
    IN /\ list.res.pagination.totalTasks = virtual
       /\ Cardinality(getOverdueTasks) = virtual
       /\ StatsSummary.res.data.overdue = virtual

\* ------------------------------------------------------------------ C24
\* C24: of the concurrent DELETE requests for one Task at most one is
\* answered 200 (the Task is deleted once; the others get 404).
C24_OneDeleteSucceeds ==
    \A s1, s2 \in DOMAIN inflight :
        (/\ s1 # s2
         /\ At(s1, "delete", "done") /\ At(s2, "delete", "done")
         /\ inflight[s1].req.id = inflight[s2].req.id) =>
            ~(inflight[s1].res.status = 200 /\ inflight[s2].res.status = 200)

\* ------------------------------------------------------------------ C25
\* C25: a PUT or PATCH is never answered 200 with a null data field.
C25_UpdateNeverReturnsNull ==
    \A s \in DOMAIN inflight :
        (inflight[s].op \in {"put", "patch"} /\ inflight[s].pc = "done"
         /\ inflight[s].res.status = 200) => inflight[s].res.data # None

\* ------------------------------------------------------------------ C26
\* C26: the data of a list response never holds more items than its total.
C26_DataWithinTotal ==
    \A s \in DOMAIN inflight :
        (At(s, "list", "done") /\ inflight[s].res.status = 200) =>
            Len(inflight[s].res.data) <= inflight[s].res.pagination.totalTasks

\* ------------------------------------------------------------------ C27
\* C27: every request gets exactly one response: while the handler runs no
\* response has been written, when it has finished exactly one has, and
\* every request that arrived gets there, whatever path it takes
\* (validation failure, not found, reference error, a rejected store call).
C27_ExactlyOneResponse ==
    /\ [](\A s \in DOMAIN inflight :
            inflight[s].sent = IF inflight[s].pc = "done" THEN 1 ELSE 0)
    /\ \A s \in ResponseSlots :
          (s \in DOMAIN inflight) ~> (s \in DOMAIN inflight /\ inflight[s].pc = "done")

\* A PUT whose findByIdAndUpdate rejected has been answered once, with 500.
C27_Witness ==
    /\ 1 \in DOMAIN inflight
    /\ inflight[1].op = "put"
    /\ "err" \in DOMAIN inflight[1]
    /\ inflight[1].pc = "done"
    /\ inflight[1].sent = 1
    /\ inflight[1].res.status = 500
    /\ inflight[1].req.id \in DOMAIN tasks

====
